---- MODULE Spec2Model ----
(***************************************************************************)
(* Task Printer: a FastAPI application (main.py) that prints a task on an  *)
(* ESC/POS thermal printer through a process-wide singleton (printing.py). *)
(*                                                                         *)
(* Python strings are modelled as sequences of code points, so that        *)
(* strip(), int(), repr(), datetime.fromisoformat and the %Y-%m-%d %H:%M   *)
(* format are computed character by character.                            *)
(***************************************************************************)
EXTENDS Integers, Sequences, FiniteSets, TLC

VARIABLES
    env,           \* os.environ: PRINTER_VENDOR_ID, PRINTER_PRODUCT_ID, PRINTER_INTERFACE
    phase,         \* "boot", then "serving" or "failed"; "lib" and "fmt" for printing.py alone
    startupError,  \* what the latest ensure_printer_ready call raised
    printer,       \* printing._printer
    usbCount,      \* how many Usb objects have been constructed
    ensureCalls,   \* how many times ensure_printer_ready has been called
    req,           \* the requests: payload, task_lines, position in print_task, exception
    device,        \* the calls the printer has received, in order, each with its request
    last           \* the latest exchange that completed

vars == <<env, phase, startupError, printer, usbCount, ensureCalls,
          req, device, last>>

(***************************************************************************)
(* Bounds of the model.                                                    *)
(***************************************************************************)
\* number of HTTP requests (or direct print_task calls) in one run
MaxRequests == 2
\* number of ensure_printer_ready calls a direct caller of printing.py makes
MaxEnsureCalls == 2

Reqs == 1..MaxRequests

(***************************************************************************)
(* Python values.  A str is the sequence of its code points, each a number *)
(* of 0 .. 1114111 (U+0000 .. U+10FFFF, the surrogates included).          *)
(***************************************************************************)
\* Python's None: an unset environment variable, the unset _printer.  No str
\* holds the number -1.
None == <<0 - 1>>

NoExc == [type |-> "", msg |-> <<>>]
ValueError(m) == [type |-> "ValueError", msg |-> m]

\* F(v), the value v being computed once
Bind(v, F(_)) == CHOOSE r \in {F(x) : x \in {v}} : TRUE

\* the least number of a non-empty set
Min(S) == CHOOSE i \in S : \A j \in S : i <= j

\* the elements of a sequence
Range(f) == {f[i] : i \in DOMAIN f}

\* s[:n] of Python
Take(s, n) == SubSeq(s, 1, IF Len(s) < n THEN Len(s) ELSE n)

\* s[::-1] of Python
Reverse(s) == [i \in 1..Len(s) |-> s[Len(s) + 1 - i]]

\* the sequences parts[lo], ..., parts[hi], concatenated
RECURSIVE Concat(_, _, _)
Concat(parts, lo, hi) ==
    IF lo > hi THEN <<>>
    ELSE IF lo = hi THEN parts[lo]
    ELSE Concat(parts, lo, (lo + hi) \div 2) \o Concat(parts, ((lo + hi) \div 2) + 1, hi)

\* "".join(parts)
Join(parts) == Bind(parts, LAMBDA v : Concat(v, 1, Len(v)))

(***************************************************************************)
(* Characters.                                                             *)
(***************************************************************************)
\* U+0020 .. U+005F and U+0061 .. U+007E, as TLA+ writes them (a TLA+ string
\* cannot hold U+0060)
AsciiLow == " !\"#$%&'()*+,-./0123456789:;<=>?@ABCDEFGHIJKLMNOPQRSTUVWXYZ[\\]^_"
AsciiHigh == "abcdefghijklmnopqrstuvwxyz{|}~"

\* ord(c) of a character of AsciiLow or AsciiHigh
Ord ==
    [c \in {SubSeq(AsciiLow, i, i) : i \in 1..Len(AsciiLow)}
               \cup {SubSeq(AsciiHigh, i, i) : i \in 1..Len(AsciiHigh)} |->
        IF \E i \in 1..Len(AsciiLow) : SubSeq(AsciiLow, i, i) = c
        THEN 31 + (CHOOSE i \in 1..Len(AsciiLow) : SubSeq(AsciiLow, i, i) = c)
        ELSE 96 + (CHOOSE i \in 1..Len(AsciiHigh) : SubSeq(AsciiHigh, i, i) = c)]

\* the str that a TLA+ string of these characters stands for
Str(lit) == [i \in 1..Len(lit) |-> Ord[SubSeq(lit, i, i)]]

\* the white space of C's isspace(): U+0009 .. U+000D and the space
AsciiSpace == (9..13) \cup {32}

\* the white space of str (str.isspace)
UnicodeSpace ==
    (9..13) \cup (28..32) \cup {\H85, \HA0, \H1680} \cup (\H2000..\H200A)
        \cup {\H2028, \H2029, \H202F, \H205F, \H3000}

\* str.isspace() on one character
IsSpace(c) == c \in UnicodeSpace

\* the zero of every run of ten decimal digits (category Nd): the digit of
\* value v is the v-th character after it
DecimalZeros ==
    {
      \H30, \H660, \H6F0, \H7C0, \H966, \H9E6, \HA66, \HAE6, \HB66, \HBE6,
      \HC66, \HCE6, \HD66, \HDE6, \HE50, \HED0, \HF20, \H1040, \H1090, \H17E0,
      \H1810, \H1946, \H19D0, \H1A80, \H1A90, \H1B50, \H1BB0, \H1C40, \H1C50, \HA620,
      \HA8D0, \HA900, \HA9D0, \HA9F0, \HAA50, \HABF0, \HFF10, \H104A0, \H10D30, \H11066,
      \H110F0, \H11136, \H111D0, \H112F0, \H11450, \H114D0, \H11650, \H116C0, \H11730, \H118E0,
      \H11950, \H11C50, \H11D50, \H11DA0, \H16A60, \H16AC0, \H16B50, \H1D7CE, \H1D7D8, \H1D7E2,
      \H1D7EC, \H1D7F6, \H1E140, \H1E2F0, \H1E950, \H1FBF0 }

\* the ranges <<first, last>> of the printable characters (str.isprintable)
PrintableRanges ==
    {
      <<\H20, \H7E>>, <<\HA1, \HAC>>, <<\HAE, \H377>>, <<\H37A, \H37F>>, <<\H384, \H38A>>,
      <<\H38C, \H38C>>, <<\H38E, \H3A1>>, <<\H3A3, \H52F>>, <<\H531, \H556>>, <<\H559, \H58A>>,
      <<\H58D, \H58F>>, <<\H591, \H5C7>>, <<\H5D0, \H5EA>>, <<\H5EF, \H5F4>>, <<\H606, \H61B>>,
      <<\H61D, \H6DC>>, <<\H6DE, \H70D>>, <<\H710, \H74A>>, <<\H74D, \H7B1>>, <<\H7C0, \H7FA>>,
      <<\H7FD, \H82D>>, <<\H830, \H83E>>, <<\H840, \H85B>>, <<\H85E, \H85E>>, <<\H860, \H86A>>,
      <<\H870, \H88E>>, <<\H898, \H8E1>>, <<\H8E3, \H983>>, <<\H985, \H98C>>, <<\H98F, \H990>>,
      <<\H993, \H9A8>>, <<\H9AA, \H9B0>>, <<\H9B2, \H9B2>>, <<\H9B6, \H9B9>>, <<\H9BC, \H9C4>>,
      <<\H9C7, \H9C8>>, <<\H9CB, \H9CE>>, <<\H9D7, \H9D7>>, <<\H9DC, \H9DD>>, <<\H9DF, \H9E3>>,
      <<\H9E6, \H9FE>>, <<\HA01, \HA03>>, <<\HA05, \HA0A>>, <<\HA0F, \HA10>>, <<\HA13, \HA28>>,
      <<\HA2A, \HA30>>, <<\HA32, \HA33>>, <<\HA35, \HA36>>, <<\HA38, \HA39>>, <<\HA3C, \HA3C>>,
      <<\HA3E, \HA42>>, <<\HA47, \HA48>>, <<\HA4B, \HA4D>>, <<\HA51, \HA51>>, <<\HA59, \HA5C>>,
      <<\HA5E, \HA5E>>, <<\HA66, \HA76>>, <<\HA81, \HA83>>, <<\HA85, \HA8D>>, <<\HA8F, \HA91>>,
      <<\HA93, \HAA8>>, <<\HAAA, \HAB0>>, <<\HAB2, \HAB3>>, <<\HAB5, \HAB9>>, <<\HABC, \HAC5>>,
      <<\HAC7, \HAC9>>, <<\HACB, \HACD>>, <<\HAD0, \HAD0>>, <<\HAE0, \HAE3>>, <<\HAE6, \HAF1>>,
      <<\HAF9, \HAFF>>, <<\HB01, \HB03>>, <<\HB05, \HB0C>>, <<\HB0F, \HB10>>, <<\HB13, \HB28>>,
      <<\HB2A, \HB30>>, <<\HB32, \HB33>>, <<\HB35, \HB39>>, <<\HB3C, \HB44>>, <<\HB47, \HB48>>,
      <<\HB4B, \HB4D>>, <<\HB55, \HB57>>, <<\HB5C, \HB5D>>, <<\HB5F, \HB63>>, <<\HB66, \HB77>>,
      <<\HB82, \HB83>>, <<\HB85, \HB8A>>, <<\HB8E, \HB90>>, <<\HB92, \HB95>>, <<\HB99, \HB9A>>,
      <<\HB9C, \HB9C>>, <<\HB9E, \HB9F>>, <<\HBA3, \HBA4>>, <<\HBA8, \HBAA>>, <<\HBAE, \HBB9>>,
      <<\HBBE, \HBC2>>, <<\HBC6, \HBC8>>, <<\HBCA, \HBCD>>, <<\HBD0, \HBD0>>, <<\HBD7, \HBD7>>,
      <<\HBE6, \HBFA>>, <<\HC00, \HC0C>>, <<\HC0E, \HC10>>, <<\HC12, \HC28>>, <<\HC2A, \HC39>>,
      <<\HC3C, \HC44>>, <<\HC46, \HC48>>, <<\HC4A, \HC4D>>, <<\HC55, \HC56>>, <<\HC58, \HC5A>>,
      <<\HC5D, \HC5D>>, <<\HC60, \HC63>>, <<\HC66, \HC6F>>, <<\HC77, \HC8C>>, <<\HC8E, \HC90>>,
      <<\HC92, \HCA8>>, <<\HCAA, \HCB3>>, <<\HCB5, \HCB9>>, <<\HCBC, \HCC4>>, <<\HCC6, \HCC8>>,
      <<\HCCA, \HCCD>>, <<\HCD5, \HCD6>>, <<\HCDD, \HCDE>>, <<\HCE0, \HCE3>>, <<\HCE6, \HCEF>>,
      <<\HCF1, \HCF2>>, <<\HD00, \HD0C>>, <<\HD0E, \HD10>>, <<\HD12, \HD44>>, <<\HD46, \HD48>>,
      <<\HD4A, \HD4F>>, <<\HD54, \HD63>>, <<\HD66, \HD7F>>, <<\HD81, \HD83>>, <<\HD85, \HD96>>,
      <<\HD9A, \HDB1>>, <<\HDB3, \HDBB>>, <<\HDBD, \HDBD>>, <<\HDC0, \HDC6>>, <<\HDCA, \HDCA>>,
      <<\HDCF, \HDD4>>, <<\HDD6, \HDD6>>, <<\HDD8, \HDDF>>, <<\HDE6, \HDEF>>, <<\HDF2, \HDF4>>,
      <<\HE01, \HE3A>>, <<\HE3F, \HE5B>>, <<\HE81, \HE82>>, <<\HE84, \HE84>>, <<\HE86, \HE8A>>,
      <<\HE8C, \HEA3>>, <<\HEA5, \HEA5>>, <<\HEA7, \HEBD>>, <<\HEC0, \HEC4>>, <<\HEC6, \HEC6>>,
      <<\HEC8, \HECD>>, <<\HED0, \HED9>>, <<\HEDC, \HEDF>>, <<\HF00, \HF47>>, <<\HF49, \HF6C>>,
      <<\HF71, \HF97>>, <<\HF99, \HFBC>>, <<\HFBE, \HFCC>>, <<\HFCE, \HFDA>>, <<\H1000, \H10C5>>,
      <<\H10C7, \H10C7>>, <<\H10CD, \H10CD>>, <<\H10D0, \H1248>>, <<\H124A, \H124D>>, <<\H1250, \H1256>>,
      <<\H1258, \H1258>>, <<\H125A, \H125D>>, <<\H1260, \H1288>>, <<\H128A, \H128D>>, <<\H1290, \H12B0>>,
      <<\H12B2, \H12B5>>, <<\H12B8, \H12BE>>, <<\H12C0, \H12C0>>, <<\H12C2, \H12C5>>, <<\H12C8, \H12D6>>,
      <<\H12D8, \H1310>>, <<\H1312, \H1315>>, <<\H1318, \H135A>>, <<\H135D, \H137C>>, <<\H1380, \H1399>>,
      <<\H13A0, \H13F5>>, <<\H13F8, \H13FD>>, <<\H1400, \H167F>>, <<\H1681, \H169C>>, <<\H16A0, \H16F8>>,
      <<\H1700, \H1715>>, <<\H171F, \H1736>>, <<\H1740, \H1753>>, <<\H1760, \H176C>>, <<\H176E, \H1770>>,
      <<\H1772, \H1773>>, <<\H1780, \H17DD>>, <<\H17E0, \H17E9>>, <<\H17F0, \H17F9>>, <<\H1800, \H180D>>,
      <<\H180F, \H1819>>, <<\H1820, \H1878>>, <<\H1880, \H18AA>>, <<\H18B0, \H18F5>>, <<\H1900, \H191E>>,
      <<\H1920, \H192B>>, <<\H1930, \H193B>>, <<\H1940, \H1940>>, <<\H1944, \H196D>>, <<\H1970, \H1974>>,
      <<\H1980, \H19AB>>, <<\H19B0, \H19C9>>, <<\H19D0, \H19DA>>, <<\H19DE, \H1A1B>>, <<\H1A1E, \H1A5E>>,
      <<\H1A60, \H1A7C>>, <<\H1A7F, \H1A89>>, <<\H1A90, \H1A99>>, <<\H1AA0, \H1AAD>>, <<\H1AB0, \H1ACE>>,
      <<\H1B00, \H1B4C>>, <<\H1B50, \H1B7E>>, <<\H1B80, \H1BF3>>, <<\H1BFC, \H1C37>>, <<\H1C3B, \H1C49>>,
      <<\H1C4D, \H1C88>>, <<\H1C90, \H1CBA>>, <<\H1CBD, \H1CC7>>, <<\H1CD0, \H1CFA>>, <<\H1D00, \H1F15>>,
      <<\H1F18, \H1F1D>>, <<\H1F20, \H1F45>>, <<\H1F48, \H1F4D>>, <<\H1F50, \H1F57>>, <<\H1F59, \H1F59>>,
      <<\H1F5B, \H1F5B>>, <<\H1F5D, \H1F5D>>, <<\H1F5F, \H1F7D>>, <<\H1F80, \H1FB4>>, <<\H1FB6, \H1FC4>>,
      <<\H1FC6, \H1FD3>>, <<\H1FD6, \H1FDB>>, <<\H1FDD, \H1FEF>>, <<\H1FF2, \H1FF4>>, <<\H1FF6, \H1FFE>>,
      <<\H2010, \H2027>>, <<\H2030, \H205E>>, <<\H2070, \H2071>>, <<\H2074, \H208E>>, <<\H2090, \H209C>>,
      <<\H20A0, \H20C0>>, <<\H20D0, \H20F0>>, <<\H2100, \H218B>>, <<\H2190, \H2426>>, <<\H2440, \H244A>>,
      <<\H2460, \H2B73>>, <<\H2B76, \H2B95>>, <<\H2B97, \H2CF3>>, <<\H2CF9, \H2D25>>, <<\H2D27, \H2D27>>,
      <<\H2D2D, \H2D2D>>, <<\H2D30, \H2D67>>, <<\H2D6F, \H2D70>>, <<\H2D7F, \H2D96>>, <<\H2DA0, \H2DA6>>,
      <<\H2DA8, \H2DAE>>, <<\H2DB0, \H2DB6>>, <<\H2DB8, \H2DBE>>, <<\H2DC0, \H2DC6>>, <<\H2DC8, \H2DCE>>,
      <<\H2DD0, \H2DD6>>, <<\H2DD8, \H2DDE>>, <<\H2DE0, \H2E5D>>, <<\H2E80, \H2E99>>, <<\H2E9B, \H2EF3>>,
      <<\H2F00, \H2FD5>>, <<\H2FF0, \H2FFB>>, <<\H3001, \H303F>>, <<\H3041, \H3096>>, <<\H3099, \H30FF>>,
      <<\H3105, \H312F>>, <<\H3131, \H318E>>, <<\H3190, \H31E3>>, <<\H31F0, \H321E>>, <<\H3220, \HA48C>>,
      <<\HA490, \HA4C6>>, <<\HA4D0, \HA62B>>, <<\HA640, \HA6F7>>, <<\HA700, \HA7CA>>, <<\HA7D0, \HA7D1>>,
      <<\HA7D3, \HA7D3>>, <<\HA7D5, \HA7D9>>, <<\HA7F2, \HA82C>>, <<\HA830, \HA839>>, <<\HA840, \HA877>>,
      <<\HA880, \HA8C5>>, <<\HA8CE, \HA8D9>>, <<\HA8E0, \HA953>>, <<\HA95F, \HA97C>>, <<\HA980, \HA9CD>>,
      <<\HA9CF, \HA9D9>>, <<\HA9DE, \HA9FE>>, <<\HAA00, \HAA36>>, <<\HAA40, \HAA4D>>, <<\HAA50, \HAA59>>,
      <<\HAA5C, \HAAC2>>, <<\HAADB, \HAAF6>>, <<\HAB01, \HAB06>>, <<\HAB09, \HAB0E>>, <<\HAB11, \HAB16>>,
      <<\HAB20, \HAB26>>, <<\HAB28, \HAB2E>>, <<\HAB30, \HAB6B>>, <<\HAB70, \HABED>>, <<\HABF0, \HABF9>>,
      <<\HAC00, \HD7A3>>, <<\HD7B0, \HD7C6>>, <<\HD7CB, \HD7FB>>, <<\HF900, \HFA6D>>, <<\HFA70, \HFAD9>>,
      <<\HFB00, \HFB06>>, <<\HFB13, \HFB17>>, <<\HFB1D, \HFB36>>, <<\HFB38, \HFB3C>>, <<\HFB3E, \HFB3E>>,
      <<\HFB40, \HFB41>>, <<\HFB43, \HFB44>>, <<\HFB46, \HFBC2>>, <<\HFBD3, \HFD8F>>, <<\HFD92, \HFDC7>>,
      <<\HFDCF, \HFDCF>>, <<\HFDF0, \HFE19>>, <<\HFE20, \HFE52>>, <<\HFE54, \HFE66>>, <<\HFE68, \HFE6B>>,
      <<\HFE70, \HFE74>>, <<\HFE76, \HFEFC>>, <<\HFF01, \HFFBE>>, <<\HFFC2, \HFFC7>>, <<\HFFCA, \HFFCF>>,
      <<\HFFD2, \HFFD7>>, <<\HFFDA, \HFFDC>>, <<\HFFE0, \HFFE6>>, <<\HFFE8, \HFFEE>>, <<\HFFFC, \HFFFD>>,
      <<\H10000, \H1000B>>, <<\H1000D, \H10026>>, <<\H10028, \H1003A>>, <<\H1003C, \H1003D>>, <<\H1003F, \H1004D>>,
      <<\H10050, \H1005D>>, <<\H10080, \H100FA>>, <<\H10100, \H10102>>, <<\H10107, \H10133>>, <<\H10137, \H1018E>>,
      <<\H10190, \H1019C>>, <<\H101A0, \H101A0>>, <<\H101D0, \H101FD>>, <<\H10280, \H1029C>>, <<\H102A0, \H102D0>>,
      <<\H102E0, \H102FB>>, <<\H10300, \H10323>>, <<\H1032D, \H1034A>>, <<\H10350, \H1037A>>, <<\H10380, \H1039D>>,
      <<\H1039F, \H103C3>>, <<\H103C8, \H103D5>>, <<\H10400, \H1049D>>, <<\H104A0, \H104A9>>, <<\H104B0, \H104D3>>,
      <<\H104D8, \H104FB>>, <<\H10500, \H10527>>, <<\H10530, \H10563>>, <<\H1056F, \H1057A>>, <<\H1057C, \H1058A>>,
      <<\H1058C, \H10592>>, <<\H10594, \H10595>>, <<\H10597, \H105A1>>, <<\H105A3, \H105B1>>, <<\H105B3, \H105B9>>,
      <<\H105BB, \H105BC>>, <<\H10600, \H10736>>, <<\H10740, \H10755>>, <<\H10760, \H10767>>, <<\H10780, \H10785>>,
      <<\H10787, \H107B0>>, <<\H107B2, \H107BA>>, <<\H10800, \H10805>>, <<\H10808, \H10808>>, <<\H1080A, \H10835>>,
      <<\H10837, \H10838>>, <<\H1083C, \H1083C>>, <<\H1083F, \H10855>>, <<\H10857, \H1089E>>, <<\H108A7, \H108AF>>,
      <<\H108E0, \H108F2>>, <<\H108F4, \H108F5>>, <<\H108FB, \H1091B>>, <<\H1091F, \H10939>>, <<\H1093F, \H1093F>>,
      <<\H10980, \H109B7>>, <<\H109BC, \H109CF>>, <<\H109D2, \H10A03>>, <<\H10A05, \H10A06>>, <<\H10A0C, \H10A13>>,
      <<\H10A15, \H10A17>>, <<\H10A19, \H10A35>>, <<\H10A38, \H10A3A>>, <<\H10A3F, \H10A48>>, <<\H10A50, \H10A58>>,
      <<\H10A60, \H10A9F>>, <<\H10AC0, \H10AE6>>, <<\H10AEB, \H10AF6>>, <<\H10B00, \H10B35>>, <<\H10B39, \H10B55>>,
      <<\H10B58, \H10B72>>, <<\H10B78, \H10B91>>, <<\H10B99, \H10B9C>>, <<\H10BA9, \H10BAF>>, <<\H10C00, \H10C48>>,
      <<\H10C80, \H10CB2>>, <<\H10CC0, \H10CF2>>, <<\H10CFA, \H10D27>>, <<\H10D30, \H10D39>>, <<\H10E60, \H10E7E>>,
      <<\H10E80, \H10EA9>>, <<\H10EAB, \H10EAD>>, <<\H10EB0, \H10EB1>>, <<\H10F00, \H10F27>>, <<\H10F30, \H10F59>>,
      <<\H10F70, \H10F89>>, <<\H10FB0, \H10FCB>>, <<\H10FE0, \H10FF6>>, <<\H11000, \H1104D>>, <<\H11052, \H11075>>,
      <<\H1107F, \H110BC>>, <<\H110BE, \H110C2>>, <<\H110D0, \H110E8>>, <<\H110F0, \H110F9>>, <<\H11100, \H11134>>,
      <<\H11136, \H11147>>, <<\H11150, \H11176>>, <<\H11180, \H111DF>>, <<\H111E1, \H111F4>>, <<\H11200, \H11211>>,
      <<\H11213, \H1123E>>, <<\H11280, \H11286>>, <<\H11288, \H11288>>, <<\H1128A, \H1128D>>, <<\H1128F, \H1129D>>,
      <<\H1129F, \H112A9>>, <<\H112B0, \H112EA>>, <<\H112F0, \H112F9>>, <<\H11300, \H11303>>, <<\H11305, \H1130C>>,
      <<\H1130F, \H11310>>, <<\H11313, \H11328>>, <<\H1132A, \H11330>>, <<\H11332, \H11333>>, <<\H11335, \H11339>>,
      <<\H1133B, \H11344>>, <<\H11347, \H11348>>, <<\H1134B, \H1134D>>, <<\H11350, \H11350>>, <<\H11357, \H11357>>,
      <<\H1135D, \H11363>>, <<\H11366, \H1136C>>, <<\H11370, \H11374>>, <<\H11400, \H1145B>>, <<\H1145D, \H11461>>,
      <<\H11480, \H114C7>>, <<\H114D0, \H114D9>>, <<\H11580, \H115B5>>, <<\H115B8, \H115DD>>, <<\H11600, \H11644>>,
      <<\H11650, \H11659>>, <<\H11660, \H1166C>>, <<\H11680, \H116B9>>, <<\H116C0, \H116C9>>, <<\H11700, \H1171A>>,
      <<\H1171D, \H1172B>>, <<\H11730, \H11746>>, <<\H11800, \H1183B>>, <<\H118A0, \H118F2>>, <<\H118FF, \H11906>>,
      <<\H11909, \H11909>>, <<\H1190C, \H11913>>, <<\H11915, \H11916>>, <<\H11918, \H11935>>, <<\H11937, \H11938>>,
      <<\H1193B, \H11946>>, <<\H11950, \H11959>>, <<\H119A0, \H119A7>>, <<\H119AA, \H119D7>>, <<\H119DA, \H119E4>>,
      <<\H11A00, \H11A47>>, <<\H11A50, \H11AA2>>, <<\H11AB0, \H11AF8>>, <<\H11C00, \H11C08>>, <<\H11C0A, \H11C36>>,
      <<\H11C38, \H11C45>>, <<\H11C50, \H11C6C>>, <<\H11C70, \H11C8F>>, <<\H11C92, \H11CA7>>, <<\H11CA9, \H11CB6>>,
      <<\H11D00, \H11D06>>, <<\H11D08, \H11D09>>, <<\H11D0B, \H11D36>>, <<\H11D3A, \H11D3A>>, <<\H11D3C, \H11D3D>>,
      <<\H11D3F, \H11D47>>, <<\H11D50, \H11D59>>, <<\H11D60, \H11D65>>, <<\H11D67, \H11D68>>, <<\H11D6A, \H11D8E>>,
      <<\H11D90, \H11D91>>, <<\H11D93, \H11D98>>, <<\H11DA0, \H11DA9>>, <<\H11EE0, \H11EF8>>, <<\H11FB0, \H11FB0>>,
      <<\H11FC0, \H11FF1>>, <<\H11FFF, \H12399>>, <<\H12400, \H1246E>>, <<\H12470, \H12474>>, <<\H12480, \H12543>>,
      <<\H12F90, \H12FF2>>, <<\H13000, \H1342E>>, <<\H14400, \H14646>>, <<\H16800, \H16A38>>, <<\H16A40, \H16A5E>>,
      <<\H16A60, \H16A69>>, <<\H16A6E, \H16ABE>>, <<\H16AC0, \H16AC9>>, <<\H16AD0, \H16AED>>, <<\H16AF0, \H16AF5>>,
      <<\H16B00, \H16B45>>, <<\H16B50, \H16B59>>, <<\H16B5B, \H16B61>>, <<\H16B63, \H16B77>>, <<\H16B7D, \H16B8F>>,
      <<\H16E40, \H16E9A>>, <<\H16F00, \H16F4A>>, <<\H16F4F, \H16F87>>, <<\H16F8F, \H16F9F>>, <<\H16FE0, \H16FE4>>,
      <<\H16FF0, \H16FF1>>, <<\H17000, \H187F7>>, <<\H18800, \H18CD5>>, <<\H18D00, \H18D08>>, <<\H1AFF0, \H1AFF3>>,
      <<\H1AFF5, \H1AFFB>>, <<\H1AFFD, \H1AFFE>>, <<\H1B000, \H1B122>>, <<\H1B150, \H1B152>>, <<\H1B164, \H1B167>>,
      <<\H1B170, \H1B2FB>>, <<\H1BC00, \H1BC6A>>, <<\H1BC70, \H1BC7C>>, <<\H1BC80, \H1BC88>>, <<\H1BC90, \H1BC99>>,
      <<\H1BC9C, \H1BC9F>>, <<\H1CF00, \H1CF2D>>, <<\H1CF30, \H1CF46>>, <<\H1CF50, \H1CFC3>>, <<\H1D000, \H1D0F5>>,
      <<\H1D100, \H1D126>>, <<\H1D129, \H1D172>>, <<\H1D17B, \H1D1EA>>, <<\H1D200, \H1D245>>, <<\H1D2E0, \H1D2F3>>,
      <<\H1D300, \H1D356>>, <<\H1D360, \H1D378>>, <<\H1D400, \H1D454>>, <<\H1D456, \H1D49C>>, <<\H1D49E, \H1D49F>>,
      <<\H1D4A2, \H1D4A2>>, <<\H1D4A5, \H1D4A6>>, <<\H1D4A9, \H1D4AC>>, <<\H1D4AE, \H1D4B9>>, <<\H1D4BB, \H1D4BB>>,
      <<\H1D4BD, \H1D4C3>>, <<\H1D4C5, \H1D505>>, <<\H1D507, \H1D50A>>, <<\H1D50D, \H1D514>>, <<\H1D516, \H1D51C>>,
      <<\H1D51E, \H1D539>>, <<\H1D53B, \H1D53E>>, <<\H1D540, \H1D544>>, <<\H1D546, \H1D546>>, <<\H1D54A, \H1D550>>,
      <<\H1D552, \H1D6A5>>, <<\H1D6A8, \H1D7CB>>, <<\H1D7CE, \H1DA8B>>, <<\H1DA9B, \H1DA9F>>, <<\H1DAA1, \H1DAAF>>,
      <<\H1DF00, \H1DF1E>>, <<\H1E000, \H1E006>>, <<\H1E008, \H1E018>>, <<\H1E01B, \H1E021>>, <<\H1E023, \H1E024>>,
      <<\H1E026, \H1E02A>>, <<\H1E100, \H1E12C>>, <<\H1E130, \H1E13D>>, <<\H1E140, \H1E149>>, <<\H1E14E, \H1E14F>>,
      <<\H1E290, \H1E2AE>>, <<\H1E2C0, \H1E2F9>>, <<\H1E2FF, \H1E2FF>>, <<\H1E7E0, \H1E7E6>>, <<\H1E7E8, \H1E7EB>>,
      <<\H1E7ED, \H1E7EE>>, <<\H1E7F0, \H1E7FE>>, <<\H1E800, \H1E8C4>>, <<\H1E8C7, \H1E8D6>>, <<\H1E900, \H1E94B>>,
      <<\H1E950, \H1E959>>, <<\H1E95E, \H1E95F>>, <<\H1EC71, \H1ECB4>>, <<\H1ED01, \H1ED3D>>, <<\H1EE00, \H1EE03>>,
      <<\H1EE05, \H1EE1F>>, <<\H1EE21, \H1EE22>>, <<\H1EE24, \H1EE24>>, <<\H1EE27, \H1EE27>>, <<\H1EE29, \H1EE32>>,
      <<\H1EE34, \H1EE37>>, <<\H1EE39, \H1EE39>>, <<\H1EE3B, \H1EE3B>>, <<\H1EE42, \H1EE42>>, <<\H1EE47, \H1EE47>>,
      <<\H1EE49, \H1EE49>>, <<\H1EE4B, \H1EE4B>>, <<\H1EE4D, \H1EE4F>>, <<\H1EE51, \H1EE52>>, <<\H1EE54, \H1EE54>>,
      <<\H1EE57, \H1EE57>>, <<\H1EE59, \H1EE59>>, <<\H1EE5B, \H1EE5B>>, <<\H1EE5D, \H1EE5D>>, <<\H1EE5F, \H1EE5F>>,
      <<\H1EE61, \H1EE62>>, <<\H1EE64, \H1EE64>>, <<\H1EE67, \H1EE6A>>, <<\H1EE6C, \H1EE72>>, <<\H1EE74, \H1EE77>>,
      <<\H1EE79, \H1EE7C>>, <<\H1EE7E, \H1EE7E>>, <<\H1EE80, \H1EE89>>, <<\H1EE8B, \H1EE9B>>, <<\H1EEA1, \H1EEA3>>,
      <<\H1EEA5, \H1EEA9>>, <<\H1EEAB, \H1EEBB>>, <<\H1EEF0, \H1EEF1>>, <<\H1F000, \H1F02B>>, <<\H1F030, \H1F093>>,
      <<\H1F0A0, \H1F0AE>>, <<\H1F0B1, \H1F0BF>>, <<\H1F0C1, \H1F0CF>>, <<\H1F0D1, \H1F0F5>>, <<\H1F100, \H1F1AD>>,
      <<\H1F1E6, \H1F202>>, <<\H1F210, \H1F23B>>, <<\H1F240, \H1F248>>, <<\H1F250, \H1F251>>, <<\H1F260, \H1F265>>,
      <<\H1F300, \H1F6D7>>, <<\H1F6DD, \H1F6EC>>, <<\H1F6F0, \H1F6FC>>, <<\H1F700, \H1F773>>, <<\H1F780, \H1F7D8>>,
      <<\H1F7E0, \H1F7EB>>, <<\H1F7F0, \H1F7F0>>, <<\H1F800, \H1F80B>>, <<\H1F810, \H1F847>>, <<\H1F850, \H1F859>>,
      <<\H1F860, \H1F887>>, <<\H1F890, \H1F8AD>>, <<\H1F8B0, \H1F8B1>>, <<\H1F900, \H1FA53>>, <<\H1FA60, \H1FA6D>>,
      <<\H1FA70, \H1FA74>>, <<\H1FA78, \H1FA7C>>, <<\H1FA80, \H1FA86>>, <<\H1FA90, \H1FAAC>>, <<\H1FAB0, \H1FABA>>,
      <<\H1FAC0, \H1FAC5>>, <<\H1FAD0, \H1FAD9>>, <<\H1FAE0, \H1FAE7>>, <<\H1FAF0, \H1FAF6>>, <<\H1FB00, \H1FB92>>,
      <<\H1FB94, \H1FBCA>>, <<\H1FBF0, \H1FBF9>>, <<\H20000, \H2A6DF>>, <<\H2A700, \H2B738>>, <<\H2B740, \H2B81D>>,
      <<\H2B820, \H2CEA1>>, <<\H2CEB0, \H2EBE0>>, <<\H2F800, \H2FA1D>>, <<\H30000, \H3134A>>, <<\HE0100, \HE01EF>> }

\* the decimal digits of Unicode, and the value of one
IsDecimal(c) == \E z \in DecimalZeros : c \in z..(z + 9)
DecimalValue(c) == c - (CHOOSE z \in DecimalZeros : c \in z..(z + 9))

\* str.isprintable() on one character
IsPrintable(c) == \E r \in PrintableRanges : r[1] <= c /\ c <= r[2]

IsSurrogate(c) == c \in \HD800..\HDFFF

IsDigit(c) == c \in 48..57

(***************************************************************************)
(* str.strip, repr and int.                                                *)
(***************************************************************************)
\* the first position of v that holds no character of the set, Len(v) + 1
\* when there is none
FirstOutside(v, set) ==
    Min({i \in 1..(Len(v) + 1) : i = Len(v) + 1 \/ v[i] \notin set})

\* s without its leading characters of the set
LStripSet(s, set) == Bind(s, LAMBDA v : SubSeq(v, FirstOutside(v, set), Len(v)))

\* s without its trailing characters of the set
RStripSet(s, set) == Reverse(LStripSet(Reverse(s), set))

\* str.lstrip() and str.rstrip()
LStrip(s) == LStripSet(s, UnicodeSpace)
RStrip(s) == RStripSet(s, UnicodeSpace)

\* str.strip(): leading and trailing whitespace removed
Strip(s) == RStrip(LStrip(s))

\* n in decimal, zero-padded to w digits (%m, %d, %H, %M)
RECURSIVE Pad(_, _)
Pad(n, w) ==
    IF w = 0 THEN <<>> ELSE Append(Pad(n \div 10, w - 1), 48 + (n % 10))

\* str(n) of an int n >= 0
RECURSIVE Decimal(_)
Decimal(n) ==
    IF n < 10 THEN <<48 + n>> ELSE Append(Decimal(n \div 10), 48 + (n % 10))

\* n in w hexadecimal digits, in lower case
RECURSIVE Hex(_, _)
Hex(n, w) ==
    IF w = 0 THEN <<>>
    ELSE Append(Hex(n \div 16, w - 1), Str("0123456789abcdef")[(n % 16) + 1])

\* the quote repr() puts around s: the double quote when s holds a single
\* quote and no double quote
ReprQuote(s) ==
    IF Ord["'"] \in Range(s) /\ Ord["\""] \notin Range(s) THEN Ord["\""] ELSE Ord["'"]

\* one character inside repr(): the backslash and the quote are escaped, and
\* so is a character that is not printable
ReprChar(c, quote) ==
    IF c = quote \/ c = Ord["\\"] THEN <<Ord["\\"], c>>
    ELSE IF c = 9 THEN Str("\\t")
    ELSE IF c = 10 THEN Str("\\n")
    ELSE IF c = 13 THEN Str("\\r")
    ELSE IF IsPrintable(c) THEN <<c>>
    ELSE IF c <= \HFF THEN Str("\\x") \o Hex(c, 2)
    ELSE IF c <= \HFFFF THEN Str("\\u") \o Hex(c, 4)
    ELSE Str("\\U") \o Hex(c, 8)

\* repr(s) of a str
Repr(s) ==
    Bind(ReprQuote(s), LAMBDA quote :
        <<quote>> \o Join([i \in 1..Len(s) |-> ReprChar(s[i], quote)]) \o <<quote>>)

\* The value of a digit in an integer literal (_PyLong_DigitValue of CPython):
\* 0 .. 9, a .. z and A .. Z for 10 .. 35, and 37 for every other character
DigitValue(c) ==
    IF c \in 48..57 THEN c - 48
    ELSE IF c \in 97..122 THEN c - 87
    ELSE IF c \in 65..90 THEN c - 55
    ELSE 37

\* the value of the first n digits of s in the base
RECURSIVE DigitsValue(_, _, _)
DigitsValue(s, n, base) ==
    IF n = 0 THEN 0 ELSE DigitsValue(s, n - 1, base) * base + DigitValue(s[n])

\* int() first turns every white space outside ASCII into a space and every
\* decimal digit outside ASCII into the ASCII digit of its value; any other
\* character outside ASCII becomes "?", which no integer literal holds
ToAscii(c) ==
    IF c < 127 THEN c
    ELSE IF c \in UnicodeSpace THEN 32
    ELSE IF IsDecimal(c) THEN 48 + DecimalValue(c)
    ELSE Ord["?"]

\* b[p] of C, the offset p counting from 0; past the end it is the 0 that ends
\* a C string
NUL == 0
At(b, p) == IF p >= 0 /\ p < Len(b) THEN b[p + 1] ELSE NUL

\* the first offset from p on that holds no character of the set (which does
\* not hold 0)
SkipSet(b, p, set) ==
    Min({q \in p..(IF p > Len(b) THEN p ELSE Len(b)) : At(b, q) \notin set})

\* sys.get_int_max_str_digits(), as the interpreter starts with
IntMaxStrDigits == 4300

\* what int(str, base) raises for a str that is no integer literal; the
\* message holds at most 200 characters of the repr
InvalidLiteral(str, base) ==
    ValueError(Str("invalid literal for int() with base ") \o Decimal(base) \o Str(": ")
                   \o Take(Repr(str), 200))

\* what int(str, base) raises for a literal of n digits, more than the limit
ExceedsLimit(n) ==
    ValueError(Str("Exceeds the limit (") \o Decimal(IntMaxStrDigits)
                   \o Str(" digits) for integer string conversion: value has ")
                   \o Decimal(n)
                   \o Str(" digits; use sys.set_int_max_str_digits() to increase the limit"))

\* The digits of an integer literal whose run of digits and underscores is
\* `run`, after a 0x prefix or not: the run starts with a digit (after a prefix
\* one underscore may precede it), holds no two underscores in a row and ends
\* with a digit.  ok = FALSE when it is not so.
LiteralDigits(run, afterPrefix) ==
    Bind(IF afterPrefix /\ run # <<>> /\ run[1] = Ord["_"] THEN Tail(run) ELSE run,
         LAMBDA body :
        IF \/ body = <<>>
           \/ body[1] = Ord["_"]
           \/ body[Len(body)] = Ord["_"]
           \/ \E i \in 1..(Len(body) - 1) : body[i] = Ord["_"] /\ body[i + 1] = Ord["_"]
        THEN [ok |-> FALSE, digits |-> <<>>]
        ELSE [ok |-> TRUE, digits |-> SelectSeq(body, LAMBDA c : c # Ord["_"])])

\* Python's int has no greatest value.  A value below 2^31 is a number here; a
\* greater one is kept as its sign and its digits in the base it was written
\* in, most significant first and without leading zeros.
FitsWord(v, base) ==
    IF base = 16 THEN Len(v) < 8 \/ (Len(v) = 8 /\ DigitValue(v[1]) < 8)
    ELSE \/ Len(v) < 10
         \/ /\ Len(v) = 10
            /\ \/ DigitsValue(v, 9, 10) < 214748364
               \/ DigitsValue(v, 9, 10) = 214748364 /\ DigitValue(v[10]) <= 7

BigInt(negative, v, base) ==
    [negative |-> negative, base |-> base, digits |-> [i \in 1..Len(v) |-> DigitValue(v[i])]]

\* the value of a run of digits with its sign, leading zeros left out
ValueOf(negative, digits, base) ==
    Bind(SubSeq(digits, FirstOutside(digits, {48}), Len(digits)),
         LAMBDA v : IF ~FitsWord(v, base) THEN BigInt(negative, v, base)
                    ELSE IF negative THEN 0 - DigitsValue(v, Len(v), base)
                    ELSE DigitsValue(v, Len(v), base))

\* int(str, base) for base 10 and 16: the string is brought to ASCII, then come
\* white space (of C's isspace()), an optional sign, for base 16 an optional 0x
\* prefix, at least one digit of the base, and white space up to the end.  A
\* literal of base 10 may not have more than IntMaxStrDigits digits: that is
\* checked once the digits are scanned, before what follows them is looked at.
\* exc is what is raised when ok = FALSE.
ParseIntAscii(str, a, base) ==
    Bind(SkipSet(a, 0, AsciiSpace), LAMBDA sign :
    Bind(IF At(a, sign) \in {Ord["+"], Ord["-"]} THEN sign + 1 ELSE sign, LAMBDA num :
    Bind(base = 16 /\ At(a, num) = Ord["0"] /\ At(a, num + 1) \in {Ord["x"], Ord["X"]},
         LAMBDA prefix :
    Bind(SkipSet(a, IF prefix THEN num + 2 ELSE num,
                 {c \in 48..122 : DigitValue(c) < base} \cup {Ord["_"]}), LAMBDA scan :
    Bind(LiteralDigits(SubSeq(a, (IF prefix THEN num + 2 ELSE num) + 1, scan), prefix),
         LAMBDA lit :
        IF lit.ok /\ base = 10 /\ Len(lit.digits) > IntMaxStrDigits
        THEN [ok |-> FALSE, val |-> 0, exc |-> ExceedsLimit(Len(lit.digits))]
        ELSE IF ~lit.ok \/ SkipSet(a, scan, AsciiSpace) # Len(a)
        THEN [ok |-> FALSE, val |-> 0, exc |-> InvalidLiteral(str, base)]
        ELSE [ok |-> TRUE,
              val |-> ValueOf(At(a, sign) = Ord["-"], lit.digits, base),
              exc |-> NoExc])))))

ParseInt(str, base) ==
    Bind([i \in 1..Len(str) |-> ToAscii(str[i])], LAMBDA a : ParseIntAscii(str, a, base))

(***************************************************************************)
(* Date-times: datetime.fromisoformat (main.py) and the format spec        *)
(* %Y-%m-%d %H:%M (printing.py).                                           *)
(***************************************************************************)
\* tzinfo of a naive datetime, and timezone(timedelta(days, seconds,
\* microseconds))
NoTz == [aware |-> FALSE, days |-> 0, seconds |-> 0, microseconds |-> 0]
Timezone(d, s, us) == [aware |-> TRUE, days |-> d, seconds |-> s, microseconds |-> us]

\* a naive datetime of whole seconds
DateTime(y, mo, d, h, mi, sec) ==
    [year |-> y, month |-> mo, day |-> d, hour |-> h, minute |-> mi, second |-> sec,
     microsecond |-> 0, tzinfo |-> NoTz]

IsLeap(y) == (y % 4 = 0 /\ y % 100 # 0) \/ y % 400 = 0

DaysInMonth(y, m) ==
    IF m = 2 THEN (IF IsLeap(y) THEN 29 ELSE 28)
    ELSE IF m \in {4, 6, 9, 11} THEN 30 ELSE 31

NoDate == [ok |-> FALSE, year |-> 0, month |-> 0, day |-> 0]

\* the number of days before January 1st of year y >= 1
DaysBeforeYear(y) ==
    (y - 1) * 365 + ((y - 1) \div 4) - ((y - 1) \div 100) + ((y - 1) \div 400)

\* the number of days of year y before the first of month m
RECURSIVE DaysBeforeMonth(_, _)
DaysBeforeMonth(y, m) ==
    IF m = 1 THEN 0 ELSE DaysBeforeMonth(y, m - 1) + DaysInMonth(y, m - 1)

\* the ordinal of a date, 0001-01-01 being day 1
Ymd2Ord(y, m, d) == DaysBeforeYear(y) + DaysBeforeMonth(y, m) + d

\* the month and the day of day n (from 1) of year y
DayOfYear(y, n) ==
    Bind(CHOOSE m \in 1..12 :
             DaysBeforeMonth(y, m) < n /\ n <= DaysBeforeMonth(y, m) + DaysInMonth(y, m),
         LAMBDA m : [ok |-> TRUE, year |-> y, month |-> m, day |-> n - DaysBeforeMonth(y, m)])

\* the date of an ordinal that lies in year y - 1, y or y + 1
Ord2Ymd(ord, y) ==
    Bind(ord, LAMBDA o :
        Bind(CHOOSE c \in (y - 1)..(y + 1) :
                 c >= 1 /\ DaysBeforeYear(c) < o /\ o <= DaysBeforeYear(c + 1),
             LAMBDA year : Bind(o - DaysBeforeYear(year), LAMBDA n : DayOfYear(year, n))))

\* the ordinal of the Monday that starts ISO week 1 of year y
IsoWeek1Monday(y) ==
    LET first   == Ymd2Ord(y, 1, 1)
        weekday == (first + 6) % 7
    IN IF weekday > 3 THEN first - weekday + 7 ELSE first - weekday

\* the date of day d of ISO week w of year y.  A year has a week 53 when it
\* starts on a Thursday, or is a leap year and starts on a Wednesday.
IsoToYmd(y, w, d) ==
    IF y < 1 \/ y > 9999 THEN NoDate
    ELSE IF w <= 0 \/ w > 53 THEN NoDate
    ELSE IF w = 53 /\ Ymd2Ord(y, 1, 1) % 7 # 4 /\ ~(Ymd2Ord(y, 1, 1) % 7 = 3 /\ IsLeap(y))
    THEN NoDate
    ELSE IF d <= 0 \/ d >= 8 THEN NoDate
    ELSE Ord2Ymd(IsoWeek1Monday(y) + (w - 1) * 7 + (d - 1), y)

\* the bytes of a character (no surrogate) in UTF-8
Utf8Char(c) ==
    IF c < \H80 THEN <<c>>
    ELSE IF c < \H800 THEN <<\HC0 + (c \div 64), \H80 + (c % 64)>>
    ELSE IF c < \H10000
    THEN <<\HE0 + (c \div 4096), \H80 + ((c \div 64) % 64), \H80 + (c % 64)>>
    ELSE <<\HF0 + (c \div 262144), \H80 + ((c \div 4096) % 64),
           \H80 + ((c \div 64) % 64), \H80 + (c % 64)>>

\* s.encode("utf-8"), which is what fromisoformat reads
Utf8(s) == Join([i \in 1..Len(s) |-> Utf8Char(s[i])])

\* the number of bytes of the character that starts with byte b, told from the
\* high bits of b
Utf8Width(b) ==
    IF b < \H80 THEN 1
    ELSE IF b \div 16 = \HE THEN 3
    ELSE IF b \div 16 = \HF THEN 4
    ELSE 2

\* n ASCII digits at offset p: their value and the offset after them
ParseDigits(b, p, n) ==
    LET run == [i \in 1..n |-> At(b, p + i - 1)]
    IN IF \A i \in 1..n : IsDigit(run[i])
       THEN [ok |-> TRUE, val |-> DigitsValue(run, n, 10), p |-> p + n]
       ELSE [ok |-> FALSE, val |-> 0, p |-> p]

\* the first offset from p on that holds no digit
SkipDigits(b, p) == SkipSet(b, p, 48..57)

\* Where the date ends (its length is 7, 8 or 10), told from the characters at
\* offsets 4 and 5 and, for a week date, from what follows the week; -1 when
\* there is no such place.
FindSeparator(b) ==
    LET n   == Len(b)
        idx == SkipDigits(b, 7)
    IN IF n = 7 THEN 7
       ELSE IF At(b, 4) = Ord["-"]
       THEN IF At(b, 5) = Ord["W"]
            THEN IF n < 8 THEN 0 - 1
                 ELSE IF n > 8 /\ At(b, 8) = Ord["-"]
                 THEN IF n = 9 THEN 0 - 1
                      ELSE IF n > 10 /\ IsDigit(At(b, 10)) THEN 8
                      ELSE 10
                 ELSE 8
            ELSE 10
       ELSE IF At(b, 4) = Ord["W"]
       THEN IF idx < 9 THEN idx
            ELSE IF idx % 2 = 0 THEN 7
            ELSE 8
       ELSE 8

\* the date of a week date: YYYY-Www, YYYY-Www-D, YYYYWww or YYYYWwwD, the
\* week starting at offset p
ParseIsoWeekDate(b, len, y, dash, p) ==
    LET week   == ParseDigits(b, p, 2)
        hasDay == p + 2 < len
        day    == ParseDigits(b, IF dash THEN p + 3 ELSE p + 2, 1)
    IN IF ~week.ok THEN NoDate
       ELSE IF ~hasDay THEN IsoToYmd(y, week.val, 1)
       ELSE IF dash /\ At(b, p + 2) # Ord["-"] THEN NoDate
       ELSE IF ~day.ok THEN NoDate
       ELSE IsoToYmd(y, week.val, day.val)

\* the date at the start of b, which is len bytes long: YYYY-MM-DD, YYYYMMDD
\* or a week date
ParseIsoDate(b, len) ==
    LET year  == ParseDigits(b, 0, 4)
        dash  == At(b, 4) = Ord["-"]
        p     == IF dash THEN 5 ELSE 4
        month == ParseDigits(b, p, 2)
        day   == ParseDigits(b, IF dash THEN p + 3 ELSE p + 2, 2)
    IN IF ~year.ok THEN NoDate
       ELSE IF At(b, p) = Ord["W"] THEN ParseIsoWeekDate(b, len, year.val, dash, p + 1)
       ELSE IF ~month.ok THEN NoDate
       ELSE IF dash /\ At(b, p + 2) # Ord["-"] THEN NoDate
       ELSE IF ~day.ok THEN NoDate
       ELSE [ok |-> TRUE, year |-> year.val, month |-> month.val, day |-> day.val]

\* what the parse of HH[:MM[:SS[.ffffff]]] returns: rv < 0 for a failure, 0
\* when the string ends where the parse ends, 1 when it goes on
TimeOf(rv, vals, us) ==
    [rv |-> rv, hour |-> vals[1], minute |-> vals[2], second |-> vals[3],
     microsecond |-> us]

\* the fraction of a second at offset p, up to `end`: at most six digits count,
\* further digits are skipped
ParseFraction(b, p, end, vals) ==
    LET remains == end - p
        toParse == IF remains >= 6 THEN 6 ELSE remains
        frac    == ParseDigits(b, p, toParse)
        us      == IF toParse < 6
                   THEN frac.val * <<100000, 10000, 1000, 100, 10>>[toParse]
                   ELSE frac.val
        rest    == SkipDigits(b, p + toParse)
    IN IF ~frac.ok THEN TimeOf(0 - 3, vals, 0)
       ELSE TimeOf(IF At(b, rest) # NUL THEN 1 ELSE 0, vals, us)

\* component i (0 the hour, 1 the minute, 2 the second) at offset p and what
\* follows it.  Whether the components are separated by colons is decided
\* after the hour.
RECURSIVE ParseTimeComponents(_, _, _, _, _, _)
ParseTimeComponents(b, end, i, p, hasSeparator, vals) ==
    IF i = 3 THEN ParseFraction(b, p, end, vals)
    ELSE LET comp == ParseDigits(b, p, 2)
             c    == At(b, p + 2)
             next == p + 3
             sep  == IF i = 0 THEN c = Ord[":"] ELSE hasSeparator
             got  == [vals EXCEPT ![i + 1] = comp.val]
         IN IF ~comp.ok THEN TimeOf(0 - 3, vals, 0)
            ELSE IF next >= end THEN TimeOf(IF c # NUL THEN 1 ELSE 0, got, 0)
            ELSE IF sep /\ c = Ord[":"] THEN ParseTimeComponents(b, end, i + 1, next, sep, got)
            ELSE IF c \in {Ord["."], Ord[","]} THEN ParseFraction(b, next, end, got)
            ELSE IF ~sep THEN ParseTimeComponents(b, end, i + 1, next - 1, sep, got)
            ELSE TimeOf(0 - 4, got, 0)

\* HH[:MM[:SS[.ffffff]]] or HH[MM[SS[.ffffff]]] from offset p up to `end`
ParseHhMmSsFf(b, p, end) == ParseTimeComponents(b, end, 0, p, TRUE, <<0, 0, 0>>)

\* the offset of the first Z, + or - from `start` on; the end of the string
\* when there is none
TzInfoPos(b, start) ==
    LET found == {p \in start..(Len(b) - 1) : At(b, p) \in {Ord["Z"], Ord["+"], Ord["-"]}}
    IN IF found # {} THEN CHOOSE p \in found : \A o \in found : p <= o
       ELSE IF start + 1 > Len(b) THEN start + 1
       ELSE Len(b)

\* The tzinfo of an offset of `seconds` and `us` (both of the sign of the
\* offset): UTC when `seconds` is 0, else timezone(timedelta(seconds = seconds,
\* microseconds = us)), which lies strictly between -24 and 24 hours.
TzInfoOf(seconds, us) ==
    IF seconds = 0 THEN [ok |-> TRUE, tz |-> Timezone(0, 0, 0)]
    ELSE IF seconds >= 86400 \/ 0 - seconds >= 86400 THEN [ok |-> FALSE, tz |-> NoTz]
    ELSE IF seconds > 0 THEN [ok |-> TRUE, tz |-> Timezone(0, seconds, us)]
    ELSE IF us = 0 THEN [ok |-> TRUE, tz |-> Timezone(0 - 1, 86400 + seconds, 0)]
    ELSE [ok |-> TRUE, tz |-> Timezone(0 - 1, 86400 + seconds - 1, 1000000 + us)]

NoTime == [ok |-> FALSE, hour |-> 0, minute |-> 0, second |-> 0, microsecond |-> 0,
           tzinfo |-> NoTz]

\* the parsed time with the tzinfo that starts at tzPos: none, Z, or a UTC
\* offset +HH[:MM[:SS[.ffffff]]]
TimeWithTz(b, tzPos, time) ==
    LET sign   == IF At(b, tzPos) = Ord["-"] THEN 0 - 1 ELSE 1
        at(tz) == IF tz.ok
                  THEN [ok |-> TRUE, hour |-> time.hour, minute |-> time.minute,
                        second |-> time.second, microsecond |-> time.microsecond,
                        tzinfo |-> tz.tz]
                  ELSE NoTime
    IN IF time.rv < 0 THEN NoTime
       ELSE IF tzPos = Len(b) THEN (IF time.rv = 1 THEN NoTime ELSE at([ok |-> TRUE, tz |-> NoTz]))
       ELSE IF At(b, tzPos) = Ord["Z"]
       THEN (IF At(b, tzPos + 1) # NUL THEN NoTime ELSE at(TzInfoOf(0, 0)))
       ELSE Bind(ParseHhMmSsFf(b, tzPos + 1, Len(b)), LAMBDA offset :
                IF offset.rv # 0 THEN NoTime
                ELSE Bind(TzInfoOf(sign * (offset.hour * 3600 + offset.minute * 60
                                              + offset.second),
                                   sign * offset.microsecond),
                          at))

\* the time from offset `start` to the end of b
ParseIsoTime(b, start) ==
    Bind(TzInfoPos(b, start), LAMBDA tzPos :
        Bind(ParseHhMmSsFf(b, start, tzPos), LAMBDA time : TimeWithTz(b, tzPos, time)))

\* datetime(year, ..., tzinfo) of a date and a time that parsed: every field
\* in its range
NewDateTime(date, time) ==
    IF /\ date.ok /\ time.ok
       /\ date.year \in 1..9999 /\ date.month \in 1..12
       /\ date.day \in 1..DaysInMonth(date.year, date.month)
       /\ time.hour \in 0..23 /\ time.minute \in 0..59 /\ time.second \in 0..59
    THEN [ok |-> TRUE,
          dt |-> [year |-> date.year, month |-> date.month, day |-> date.day,
                  hour |-> time.hour, minute |-> time.minute, second |-> time.second,
                  microsecond |-> time.microsecond, tzinfo |-> time.tzinfo]]
    ELSE [ok |-> FALSE, dt |-> None]

\* the date of the first `sep` bytes and the time after the separator
SplitIso(b, sep) ==
    Bind(ParseIsoDate(b, sep), LAMBDA date :
        IF ~date.ok THEN NewDateTime(NoDate, NoTime)
        ELSE IF Len(b) > sep
        THEN Bind(ParseIsoTime(b, sep + Utf8Width(At(b, sep))),
                  LAMBDA time : NewDateTime(date, time))
        ELSE NewDateTime(date, [NoTime EXCEPT !.ok = TRUE]))

\* The separator may be a surrogate, which UTF-8 cannot encode: of the places
\* where the date can end (after 7, 8 or 10 characters), the first that holds
\* a surrogate gets a "T" instead.
SanitizeIso(s) ==
    LET at == {p \in {7, 8, 10} : p < Len(s) /\ IsSurrogate(s[p + 1])}
    IN IF at = {} THEN s ELSE [s EXCEPT ![Min(at) + 1] = Ord["T"]]

\* datetime.fromisoformat(s) of Python 3.11: a date, then optionally one
\* separator character and a time.  The date is YYYY-MM-DD, YYYYMMDD or a week
\* date; the time HH[:MM[:SS[.ffffff]]], with or without the colons, and an
\* optional Z or UTC offset.  The string is read as the C string of its UTF-8
\* bytes.  ok = FALSE stands for ValueError.
FromIsoFormat(s) ==
    IF Len(s) < 7 THEN NewDateTime(NoDate, NoTime)
    ELSE Bind(SanitizeIso(s), LAMBDA clean :
        IF \E i \in 1..Len(clean) : IsSurrogate(clean[i]) THEN NewDateTime(NoDate, NoTime)
        ELSE Bind(Utf8(clean), LAMBDA b :
                 Bind(FindSeparator(b), LAMBDA sep :
                     IF sep < 0 THEN NewDateTime(NoDate, NoTime) ELSE SplitIso(b, sep))))

\* %Y: datetime.__format__ hands the format to the C library's strftime, which
\* writes the year as a plain decimal number: years below 1000 are not padded.
FormatYear(y) == Decimal(y)

\* format(dt, "%Y-%m-%d %H:%M"): the seconds are not part of the format
Strftime(dt) ==
    FormatYear(dt.year) \o Str("-") \o Pad(dt.month, 2) \o Str("-") \o Pad(dt.day, 2)
        \o Str(" ") \o Pad(dt.hour, 2) \o Str(":") \o Pad(dt.minute, 2)

CreatedLabel == Str("Created: ")
DueLabel == Str("Due:     ")

\* task_lines of print_task
TaskLines(title, description, created, due) ==
    << title,
       description,
       CreatedLabel \o Strftime(created),
       DueLabel \o Strftime(due) >>

(***************************************************************************)
(* The printer singleton (printing.py).                                    *)
(***************************************************************************)
\* _printer is None
NoPrinter == [id |-> 0, vid |-> 0, pid |-> 0, interface |-> 0]

\* what Usb(...) raises when it does not reach the device
UsbNotFound == [type |-> "USBNotFoundError", msg |-> Str("USB device not found")]

\* _init_printer without the check of the two IDs: an ID that is no hexadecimal
\* number counts as 0
InitPrinter_unchecked(e, usbOk, n) ==
    IF ~usbOk THEN [ok |-> FALSE, exc |-> UsbNotFound, handle |-> NoPrinter]
    ELSE [ok |-> TRUE, exc |-> NoExc,
          handle |-> [id |-> n,
                      vid |-> IF e.vendor = None THEN 0 ELSE ParseInt(e.vendor, 16).val,
                      pid |-> IF e.product = None THEN 0 ELSE ParseInt(e.product, 16).val,
                      interface |-> 0]]

\* _init_printer(): the Usb object, or the exception raised.  n is the identity
\* the new object gets; usbOk tells whether Usb(...) reaches the device.
InitPrinter(e, usbOk, n) ==
    IF e.vendor \in {None, <<>>} \/ e.product \in {None, <<>>}
    THEN [ok |-> FALSE, handle |-> NoPrinter,
          exc |-> ValueError(Str("PRINTER_VENDOR_ID and PRINTER_PRODUCT_ID must be set"))]
    ELSE Bind(<<ParseInt(e.vendor, 16), ParseInt(e.product, 16)>>, LAMBDA ids :
        IF ~ids[1].ok \/ ~ids[2].ok
        THEN [ok |-> FALSE, handle |-> NoPrinter,
              exc |-> ValueError(Str("Vendor and product IDs must be valid hexadecimal strings"))]
        ELSE Bind(IF e.interface = None THEN [ok |-> TRUE, val |-> 0, exc |-> NoExc]
                  ELSE ParseInt(e.interface, 10), LAMBDA interface :
            IF ~interface.ok THEN [ok |-> FALSE, handle |-> NoPrinter, exc |-> interface.exc]
            ELSE IF ~usbOk THEN [ok |-> FALSE, handle |-> NoPrinter, exc |-> UsbNotFound]
            ELSE [ok |-> TRUE, exc |-> NoExc,
                  handle |-> [id |-> n, vid |-> ids[1].val, pid |-> ids[2].val,
                              interface |-> interface.val]]))

\* the singleton without its `is None` test: every call constructs
EnsureReady_always(usbOk) == InitPrinter(env, usbOk, usbCount + 1)

\* whether Usb(...) reaches the device is a choice of the environment, made
\* only when _init_printer is called
UsbOutcomes == IF printer.id = 0 THEN BOOLEAN ELSE {TRUE}

\* `if _printer is None: _printer = _init_printer()`, as ensure_printer_ready
\* and print_task both do: the handle afterwards and the exception raised
EnsureReady(usbOk) ==
    IF printer.id = 0
    THEN InitPrinter(env, usbOk, usbCount + 1)
    ELSE [ok |-> TRUE, exc |-> NoExc, handle |-> printer]

\* the number of Usb objects constructed so far, once `handle` is the singleton
UsbCountAfter(handle) ==
    IF handle.id > usbCount THEN handle.id ELSE usbCount

(***************************************************************************)
(* Calls on the device.                                                    *)
(***************************************************************************)
NL == <<10>>

SetCall(align, style) == [op |-> "set", align |-> align, style |-> style, text |-> <<>>]
TextlnCall(text) == [op |-> "textln", align |-> "", style |-> "", text |-> text]
CutCall == [op |-> "cut", align |-> "", style |-> "", text |-> <<>>]

\* print_task without the second set(): the style is never reset
PrintCalls_noreset(lines) ==
    << SetCall("left", "b"),
       TextlnCall(lines[1] \o NL),
       TextlnCall(lines[2] \o NL),
       TextlnCall(lines[3] \o NL),
       TextlnCall(lines[4] \o NL),
       CutCall >>

\* the device calls of print_task, in program order
PrintCalls(lines) ==
    << SetCall("left", "b"),
       TextlnCall(lines[1] \o NL),
       SetCall("", "normal"),
       TextlnCall(lines[2] \o NL),
       TextlnCall(lines[3] \o NL),
       TextlnCall(lines[4] \o NL),
       CutCall >>

(***************************************************************************)
(* Inputs of the model.                                                    *)
(***************************************************************************)
Str0x0416 == Str("0x0416")
Str0x5011 == Str("0x5011")

\* os.environ: each variable unset (None) or a string
Envs ==
    [vendor    : {None, <<>>, Str0x0416, Str("zz")},
     product   : {None, <<>>, Str0x5011, Str("5g")},
     interface : {None, Str("x")}]

\* the environments of a program that uses printing.py directly: a vendor ID
\* with a carriage return before it, an interface that is U+0080 and an x
LibEnvs ==
    [vendor    : {None, Str0x0416, <<13>> \o Str("10")},
     product   : {Str0x5011},
     interface : {None, Str("1"), <<\H80>> \o Str("x")}]

GoodEnv == [vendor |-> Str0x0416, product |-> Str0x5011, interface |-> None]

\* the empty str, white space (a space; a space and a carriage return) and a
\* letter
Titles == {<<>>, Str(" "), Str("T")}
Descriptions == {<<>>, <<32, 13>>, Str("d")}

DtCreated == DateTime(2024, 1, 5, 9, 30, 0)
DtDue == DateTime(2024, 1, 5, 17, 0, 59)

\* a JSON timestamp as pydantic coerces it to `datetime`: the value, or a
\* validation error
Malformed == [ok |-> FALSE, dt |-> None]
WellFormed(dt) == [ok |-> TRUE, dt |-> dt]

\* bodies of POST /api/print
ApiPayloads ==
    [title       : Titles,
     description : Descriptions,
     created_on  : {Malformed, WellFormed(DtCreated)},
     due_by      : {Malformed, WellFormed(DtDue)}]

IsoCreated == Str("2024-01-05T09:30")
\* a week date, the time without colons, a fraction of a second and a UTC
\* offset
IsoDue == Str("2024-W01-5T170059.5+01:00")
IsoBadMonth == Str("2024-13-05T09:30")
NotADate == Str("soon")

\* a form submission every field of which is accepted
GoodForm == [title |-> Str("T"), description |-> Str("d"),
             created_on |-> IsoCreated, due_by |-> IsoDue]

\* form fields of POST /print as print_from_form receives them: four strs, with
\* no check before the handler runs.  A field sent empty arrives as the empty
\* str.  The submissions: every title, every description and every pair of
\* dates with the other fields good, and the one with all four fields empty.
FormPayloads ==
    {[GoodForm EXCEPT !.title = t] : t \in Titles}
        \cup {[GoodForm EXCEPT !.description = d] : d \in Descriptions}
        \cup {[GoodForm EXCEPT !.created_on = c, !.due_by = u] :
                 c \in {IsoCreated, NotADate, <<>>}, u \in {IsoDue, IsoBadMonth, <<>>}}
        \cup {[title |-> <<>>, description |-> <<>>, created_on |-> <<>>, due_by |-> <<>>]}

\* arguments of a direct call of print_task
LibPayloads ==
    [title       : {Str("T")},
     description : {Str("d")},
     created_on  : {WellFormed(DtCreated)},
     due_by      : {WellFormed(DtDue)}]

\* what a failing device call raises: the transport's error, or an exception
\* that carries no message
DeviceErrors ==
    { [type |-> "USBError", msg |-> Str("[Errno 19] No such device")],
      [type |-> "MemoryError", msg |-> <<>>] }

(***************************************************************************)
(* State.                                                                  *)
(***************************************************************************)
NoPayload == [title |-> <<>>, description |-> <<>>,
              created_on |-> Malformed, due_by |-> Malformed]

\* a request that has not arrived (st = "idle"); st = "closed" once answered
IdleReq == [st |-> "idle", endpoint |-> "", payload |-> NoPayload,
            lines |-> <<>>, pc |-> 0, calls |-> <<>>, exc |-> NoExc]

\* The body of a response: `status` and `detail` of the JSON that print_via_api
\* returns, the `content` of an HTMLResponse (for a template, its name), and
\* for the 422 of the framework the `errors` its detail lists.
NoBody == [status |-> "", detail |-> <<>>, content |-> <<>>, errors |-> <<>>]

\* the latest exchange that completed: the payload, the response sent (status,
\* body; none for a direct call of print_task), the device calls print_task
\* made and the exception it raised
NoLast == [id |-> 0, endpoint |-> "", payload |-> NoPayload, status |-> 0,
           body |-> NoBody, calls |-> <<>>, exc |-> NoExc]

InitWith(ph, envs) ==
    /\ env \in envs
    /\ phase = ph
    /\ startupError = NoExc
    /\ printer = NoPrinter
    /\ usbCount = 0
    /\ ensureCalls = 0
    /\ req = [r \in Reqs |-> IdleReq]
    /\ device = <<>>
    /\ last = NoLast

\* the process before main.py is imported
Init == InitWith("boot", Envs)

(***************************************************************************)
(* Startup: main.py calls ensure_printer_ready() while it is imported.  An *)
(* exception there ends the import: there is no application to serve.      *)
(***************************************************************************)
Startup ==
    /\ phase = "boot"
    /\ \E usbOk \in UsbOutcomes :
          \E res \in {EnsureReady(usbOk)} :
             /\ printer' = res.handle
             /\ usbCount' = UsbCountAfter(res.handle)
             /\ startupError' = res.exc
             /\ phase' = IF res.ok THEN "serving" ELSE "failed"
    /\ ensureCalls' = ensureCalls + 1
    /\ UNCHANGED <<env, req, device, last>>

(***************************************************************************)
(* The web layer (main.py).                                                *)
(***************************************************************************)
\* A connection is accepted; requests are numbered in the order they arrive.
Arrive(r) ==
    /\ phase = "serving"
    /\ req[r].st = "idle"
    /\ r > 1 => req[r - 1].st # "idle"
    /\ \E ep \in {"api", "form"} :
          req' = [req EXCEPT ![r] = [IdleReq EXCEPT !.st = "pending", !.endpoint = ep]]
    /\ UNCHANGED <<env, phase, startupError, printer, usbCount, ensureCalls, device, last>>

\* handlers that run in worker threads: one starts whatever the others do
EventLoopIdle_threads == TRUE

\* Both handlers are coroutines (async def) that call print_task without
\* awaiting anything: the event loop runs one of them from its first statement
\* to its return before it resumes any other.
EventLoopIdle == \A q \in Reqs : req[q].st # "running"

\* PrintRequest.not_empty(v): what it raises
NotEmptyRaises(v) ==
    IF Strip(v) = <<>> THEN ValueError(Str("Field cannot be empty")) ELSE NoExc

\* PrintRequest.not_empty returns v
NotEmpty(v) == NotEmptyRaises(v) = NoExc

\* PrintRequest: the validator on title and description, datetime on both dates
ValidPrintRequest(p) ==
    /\ NotEmpty(p.title)
    /\ NotEmpty(p.description)
    /\ p.created_on.ok
    /\ p.due_by.ok

\* print_task up to its first device call: the singleton is ensured and
\* task_lines is built
BeginPrintTask(r, ep, p, created, due, usbOk) ==
    \E res \in {EnsureReady(usbOk)} :
       /\ printer' = res.handle
       /\ usbCount' = UsbCountAfter(res.handle)
       /\ req' = [req EXCEPT ![r] =
                    [@ EXCEPT !.st = "running",
                              !.endpoint = ep,
                              !.payload = p,
                              !.lines = IF res.ok
                                        THEN TaskLines(p.title, p.description, created, due)
                                        ELSE <<>>,
                              !.pc = IF res.ok THEN 1 ELSE 0,
                              !.exc = res.exc]]

\* the request is answered and its connection closed
Answer(r, p, status, body) ==
    /\ last' = [id |-> r, endpoint |-> req[r].endpoint, payload |-> p,
                status |-> status, body |-> body, calls |-> req[r].calls,
                exc |-> req[r].exc]
    /\ req' = [req EXCEPT ![r] = [IdleReq EXCEPT !.st = "closed"]]

JsonBody(status, detail) == [NoBody EXCEPT !.status = status, !.detail = detail]
HtmlBody(content) == [NoBody EXCEPT !.content = content]

\* The fields of a body that PrintRequest rejects, in the order of the class,
\* each with what the validator of the class raised for it: not_empty runs on
\* title and description; a date is rejected by the datetime type itself.
ValidationErrors(p) ==
    SelectSeq(<< [loc |-> "title", exc |-> NotEmptyRaises(p.title)],
                 [loc |-> "description", exc |-> NotEmptyRaises(p.description)],
                 [loc |-> "created_on", exc |-> NoExc],
                 [loc |-> "due_by", exc |-> NoExc] >>,
              LAMBDA e : \/ e.exc # NoExc
                         \/ e.loc = "created_on" /\ ~p.created_on.ok
                         \/ e.loc = "due_by" /\ ~p.due_by.ok)

\* the 422 answer of the framework to a body that PrintRequest rejects
ValidationBody(p) == [NoBody EXCEPT !.errors = ValidationErrors(p)]

\* POST /api/print is dispatched: the body is validated against PrintRequest;
\* print_via_api starts only with a valid payload
ApiDispatch(r) ==
    /\ req[r].st = "pending" /\ req[r].endpoint = "api"
    /\ EventLoopIdle
    /\ \E p \in ApiPayloads, usbOk \in UsbOutcomes :
          IF ValidPrintRequest(p)
          THEN /\ BeginPrintTask(r, "api", p, p.created_on.dt, p.due_by.dt, usbOk)
               /\ UNCHANGED last
          ELSE /\ Answer(r, p, 422, ValidationBody(p))
               /\ UNCHANGED <<printer, usbCount>>
    /\ UNCHANGED <<env, phase, startupError, ensureCalls, device>>

\* a try block that falls back to a default date instead of failing
ParseFormDates_fallback(p) ==
    Bind(<<FromIsoFormat(p.created_on), FromIsoFormat(p.due_by)>>, LAMBDA d :
        [ok |-> TRUE,
         created |-> IF d[1].ok THEN d[1].dt ELSE DtCreated,
         due |-> IF d[2].ok THEN d[2].dt ELSE DtDue])

\* the try block of print_from_form: both dates, or ValueError (ok = FALSE)
ParseFormDates(p) ==
    Bind(<<FromIsoFormat(p.created_on), FromIsoFormat(p.due_by)>>, LAMBDA d :
        [ok |-> d[1].ok /\ d[2].ok, created |-> d[1].dt, due |-> d[2].dt])

\* the outcome of the try block for each form payload
ParsedForms == [p \in FormPayloads |-> ParseFormDates(p)]

\* POST /print is dispatched: print_from_form parses the two dates, then prints
FormDispatch(r) ==
    /\ req[r].st = "pending" /\ req[r].endpoint = "form"
    /\ EventLoopIdle
    /\ \E p \in FormPayloads, usbOk \in UsbOutcomes :
          LET dates == ParsedForms[p]
          IN IF dates.ok
             THEN /\ BeginPrintTask(r, "form", p, dates.created, dates.due, usbOk)
                  /\ UNCHANGED last
             ELSE /\ Answer(r, p, 400, HtmlBody(Str("Invalid date/time format")))
                  /\ UNCHANGED <<printer, usbCount>>
    /\ UNCHANGED <<env, phase, startupError, ensureCalls, device>>

\* the number of device calls a complete print_task makes
NumCalls == Len(PrintCalls(<< <<>>, <<>>, <<>>, <<>> >>))

\* a print_task that catches the exception of a device call and goes on
Printing_continue(r) ==
    /\ req[r].st = "running"
    /\ req[r].pc \in 1..NumCalls

\* print_task is between two device calls
Printing(r) ==
    /\ req[r].st = "running"
    /\ req[r].exc = NoExc
    /\ req[r].pc \in 1..NumCalls

\* the next device call of print_task succeeds
DeviceCallOk(r) ==
    /\ Printing(r)
    /\ LET call == PrintCalls(req[r].lines)[req[r].pc]
       IN /\ req' = [req EXCEPT ![r].calls = Append(@, [call |-> call, ok |-> TRUE]),
                                ![r].pc = @ + 1]
          /\ device' = Append(device, [req |-> r, op |-> call.op])
    /\ UNCHANGED <<env, phase, startupError, printer, usbCount, ensureCalls, last>>

\* the next device call of print_task raises: print_task has no try, the
\* exception leaves it
DeviceCallFails(r) ==
    /\ Printing(r)
    /\ \E e \in DeviceErrors :
          LET call == PrintCalls(req[r].lines)[req[r].pc]
          IN req' = [req EXCEPT ![r].calls = Append(@, [call |-> call, ok |-> FALSE]),
                                ![r].exc = e]
    /\ UNCHANGED <<env, phase, startupError, printer, usbCount, ensureCalls, device, last>>

\* print_task has returned or raised
PrintTaskOver(r) ==
    /\ req[r].st = "running"
    /\ req[r].exc # NoExc \/ req[r].pc > NumCalls

\* the name of the exception's type instead of its message
StrExc_type(e) == Str(e.type)

\* str(exc)
StrExc(e) == e.msg

\* a handler that answers success whatever print_task did
ApiResponse_swallow(e) == [status |-> 200, body |-> JsonBody("success", <<>>)]

\* print_via_api after print_task
ApiResponse(e) ==
    IF e # NoExc
    THEN [status |-> 500, body |-> JsonBody("error", StrExc(e))]
    ELSE [status |-> 200, body |-> JsonBody("success", <<>>)]

ApiRespond(r) ==
    /\ req[r].endpoint = "api"
    /\ PrintTaskOver(r)
    /\ \E res \in {ApiResponse(req[r].exc)} : Answer(r, req[r].payload, res.status, res.body)
    /\ UNCHANGED <<env, phase, startupError, printer, usbCount, ensureCalls, device>>

\* print_from_form after print_task
FormResponse(e) ==
    IF e # NoExc
    THEN [status |-> 500, body |-> HtmlBody(Str("Error printing: ") \o StrExc(e))]
    ELSE [status |-> 200, body |-> HtmlBody(Str("confirmation.html"))]

FormRespond(r) ==
    /\ req[r].endpoint = "form"
    /\ PrintTaskOver(r)
    /\ \E res \in {FormResponse(req[r].exc)} : Answer(r, req[r].payload, res.status, res.body)
    /\ UNCHANGED <<env, phase, startupError, printer, usbCount, ensureCalls, device>>

Next ==
    \/ Startup
    \/ \E r \in Reqs :
          \/ Arrive(r)
          \/ ApiDispatch(r)
          \/ FormDispatch(r)
          \/ DeviceCallOk(r)
          \/ DeviceCallFails(r)
          \/ ApiRespond(r)
          \/ FormRespond(r)

Spec == Init /\ [][Next]_vars

(***************************************************************************)
(* printing.py used directly: a single-threaded caller calls               *)
(* ensure_printer_ready and print_task in any order, and catches what they *)
(* raise.                                                                  *)
(***************************************************************************)
InitLib == InitWith("lib", LibEnvs)

LibEnsure ==
    /\ phase = "lib"
    /\ ensureCalls < MaxEnsureCalls
    /\ EventLoopIdle
    /\ \E usbOk \in UsbOutcomes :
          \E res \in {EnsureReady(usbOk)} :
             /\ printer' = res.handle
             /\ usbCount' = UsbCountAfter(res.handle)
             /\ startupError' = res.exc
    /\ ensureCalls' = ensureCalls + 1
    /\ UNCHANGED <<env, phase, req, device, last>>

LibPrintTask(r) ==
    /\ phase = "lib"
    /\ req[r].st = "idle"
    /\ r > 1 => req[r - 1].st # "idle"
    /\ EventLoopIdle
    /\ \E p \in LibPayloads, usbOk \in UsbOutcomes :
          BeginPrintTask(r, "lib", p, p.created_on.dt, p.due_by.dt, usbOk)
    /\ UNCHANGED <<env, phase, startupError, ensureCalls, device, last>>

\* print_task returns to its caller or raises
LibReturn(r) ==
    /\ req[r].endpoint = "lib"
    /\ PrintTaskOver(r)
    /\ Answer(r, req[r].payload, 0, NoBody)
    /\ UNCHANGED <<env, phase, startupError, printer, usbCount, ensureCalls, device>>

NextLib ==
    \/ LibEnsure
    \/ \E r \in Reqs :
          \/ LibPrintTask(r)
          \/ DeviceCallOk(r)
          \/ DeviceCallFails(r)
          \/ LibReturn(r)

SpecLib == InitLib /\ [][NextLib]_vars

(***************************************************************************)
(* task_lines alone: print_task's formatting over a range of date-times.   *)
(***************************************************************************)
FmtDateTimes ==
    { DateTime(y, mo, d, h, mi, sec) :
        y \in {999, 2024, 9999}, mo \in {1, 12}, d \in {5, 31},
        h \in {0, 9, 17}, mi \in {0, 30}, sec \in {0, 59} }

InitFmt == InitWith("fmt", {GoodEnv})

BuildTaskLines ==
    /\ phase = "fmt"
    /\ req[1].st = "idle"
    /\ \E created \in FmtDateTimes, due \in FmtDateTimes :
          req' = [req EXCEPT ![1] =
                    [IdleReq EXCEPT
                        !.st = "built",
                        !.endpoint = "lib",
                        !.payload = [title |-> Str("T"), description |-> Str("d"),
                                     created_on |-> WellFormed(created),
                                     due_by |-> WellFormed(due)],
                        !.lines = TaskLines(Str("T"), Str("d"), created, due)]]
    /\ UNCHANGED <<env, phase, startupError, printer, usbCount, ensureCalls, device, last>>

NextFmt == BuildTaskLines

SpecFmt == InitFmt /\ [][NextFmt]_vars

(***************************************************************************)
(* Properties.                                                             *)
(***************************************************************************)
WebEndpoints == {"api", "form"}

\* every device call of the sequence succeeded
AllOk(calls) == \A i \in 1..Len(calls) : calls[i].ok

\* the calls themselves, without their outcome
CallsOf(calls) == [i \in 1..Len(calls) |-> calls[i].call]

\* what the device received on behalf of request r
DeviceOf(r) == SelectSeq(device, LAMBDA e : e.req = r)

\* title or description is empty or whitespace-only
Blank(p) == Strip(p.title) = <<>> \/ Strip(p.description) = <<>>

\* the form payloads one of whose dates datetime.fromisoformat does not parse:
\* no date at all ("soon"), a month 13, the empty str
UnparsableForms ==
    UNION { IF ~FromIsoFormat(p.created_on).ok \/ ~FromIsoFormat(p.due_by).ok THEN {p} ELSE {} :
              p \in FormPayloads }

BadDates(p) == p \in UnparsableForms

\* the calls stop at the first failure: all but the last succeeded
StopsAtFailure(calls) ==
    /\ Len(calls) >= 1
    /\ ~calls[Len(calls)].ok
    /\ \A i \in 1..(Len(calls) - 1) : calls[i].ok

\* C1: a valid POST /api/print is answered 200 {status: "success"} if and only
\* if every device call print_task made for it succeeded (and then all seven
\* were made); if one failed the answer is not a success.
C1_ApiSuccessIffDeviceOk ==
    (last.endpoint = "api" /\ ValidPrintRequest(last.payload)) =>
        LET success == last.status = 200 /\ last.body.status = "success"
        IN /\ success <=> AllOk(last.calls)
           /\ success => Len(last.calls) = 7
           /\ ~AllOk(last.calls) => last.status = 500 /\ last.body.status # "success"

C1_Witness ==
    /\ last.endpoint = "api"
    /\ ValidPrintRequest(last.payload)
    /\ last.status = 200
    /\ Len(last.calls) = 7
    /\ Len(DeviceOf(last.id)) = 7

\* C2: a request whose title or description is empty or whitespace-only, at
\* POST /api/print or at POST /print, is rejected before any device call:
\* print_task never starts for it and the device sees no call of it.
C2_BlankRejectedBeforeDevice ==
    /\ \A r \in Reqs :
          (req[r].st = "running" /\ req[r].endpoint \in WebEndpoints)
              => ~Blank(req[r].payload)
    /\ (last.endpoint \in WebEndpoints /\ Blank(last.payload)) =>
          /\ last.status \in {400, 422}
          /\ last.calls = <<>>
          /\ DeviceOf(last.id) = <<>>

\* C3: a POST /print whose created_on or due_by does not parse is answered 400
\* in the step that dispatches it; print_task is not invoked, the device gets
\* no call and the printer singleton is unchanged.  Every call the device
\* receives comes from a request whose print_task is running.
C3_BadDateRejected ==
    [][ /\ \A r \in Reqs :
             (req[r].st = "pending" /\ req[r].endpoint = "form" /\ req'[r].st # "pending") =>
                LET p == IF req'[r].st = "running" THEN req'[r].payload ELSE last'.payload
                IN BadDates(p) =>
                      /\ req'[r].st = "closed"
                      /\ last'.id = r
                      /\ last'.status = 400
                      /\ last'.body = HtmlBody(Str("Invalid date/time format"))
                      /\ last'.calls = <<>>
                      /\ printer' = printer
                      /\ usbCount' = usbCount
                      /\ device' = device
        /\ device' # device => req[device'[Len(device')].req].st = "running"
      ]_vars

C3_Witness ==
    /\ last.endpoint = "form"
    /\ ~FromIsoFormat(last.payload.created_on).ok
    /\ last.status = 400
    /\ DeviceOf(last.id) = <<>>

\* the environments in which PRINTER_VENDOR_ID or PRINTER_PRODUCT_ID is
\* missing, empty or no hexadecimal number
InvalidEnvs ==
    UNION { IF \/ e.vendor \in {None, <<>>}
               \/ e.product \in {None, <<>>}
               \/ ~ParseInt(e.vendor, 16).ok
               \/ ~ParseInt(e.product, 16).ok
            THEN {e} ELSE {} : e \in Envs }

ConfigInvalid == env \in InvalidEnvs

\* C4: with PRINTER_VENDOR_ID or PRINTER_PRODUCT_ID missing, empty or not
\* hexadecimal the startup call fails with a configuration error, the singleton
\* stays unset, no Usb object is constructed and no request is ever handled.
C4_BadConfigNeverServes ==
    ConfigInvalid =>
        /\ phase \in {"boot", "failed"}
        /\ ensureCalls > 0 => phase = "failed"
        /\ phase = "failed" =>
              /\ startupError.type = "ValueError"
              /\ startupError.msg \in
                    {Str("PRINTER_VENDOR_ID and PRINTER_PRODUCT_ID must be set"),
                     Str("Vendor and product IDs must be valid hexadecimal strings")}
        /\ printer = NoPrinter
        /\ usbCount = 0
        /\ \A r \in Reqs : req[r] = IdleReq
        /\ last = NoLast
        /\ device = <<>>

C4_Witness ==
    /\ env.vendor = Str("zz")
    /\ env.product = Str0x5011
    /\ phase = "failed"
    /\ startupError.msg = Str("Vendor and product IDs must be valid hexadecimal strings")

\* a device call failed while POST /api/print was handled
ApiDeviceFailure == last.endpoint = "api" /\ ~AllOk(last.calls)

\* C5 as claimed: a device-call failure during POST /api/print gives 500,
\* status "error" and a detail that is non-empty and equal to the message of
\* the error, for every error the device layer can raise.
C5_DetailNonEmptyMessage ==
    ApiDeviceFailure =>
        /\ last.status = 500
        /\ last.body.status = "error"
        /\ last.body.detail = last.exc.msg
        /\ last.body.detail # <<>>

\* C5 amended: a device-call failure during POST /api/print gives 500, status
\* "error" and a detail equal to the message of the error (str(exc)); the
\* detail is empty exactly when the error carries no message.
C5_DetailIsMessage ==
    ApiDeviceFailure =>
        /\ last.status = 500
        /\ last.body.status = "error"
        /\ last.exc \in DeviceErrors
        /\ last.body.detail = last.exc.msg

C5_Witness ==
    /\ ApiDeviceFailure
    /\ last.status = 500
    /\ last.body.detail = Str("[Errno 19] No such device")

\* C6: the singleton is created at most once: once it is set, no call of
\* ensure_printer_ready or print_task constructs another Usb object or
\* replaces the handle, also not after a print_task that failed on the device.
C6_SingletonCreatedOnce ==
    [][ /\ printer.id # 0 => (printer' = printer /\ usbCount' = usbCount)
        /\ usbCount' <= 1
      ]_vars

C6_Witness ==
    /\ printer.id = 1
    /\ usbCount = 1
    /\ ensureCalls >= 1
    /\ last.endpoint = "lib"
    /\ last.exc \in DeviceErrors
    /\ \E r \in Reqs : req[r].st = "running" /\ req[r].calls # <<>>

\* the style the latest set() before call i put in effect
RECURSIVE StyleInEffect(_, _)
StyleInEffect(calls, i) ==
    IF i = 0 THEN "normal"
    ELSE IF calls[i].op = "set" THEN calls[i].style
    ELSE StyleInEffect(calls, i - 1)

\* print_task of request r returned without an exception
Returned(r) == PrintTaskOver(r) /\ req[r].exc = NoExc

\* C7: a print_task whose device calls all succeed issues exactly: set bold,
\* the title line, set normal, the description line, the Created line, the Due
\* line, cut.  Four lines in that order, each with one extra newline, only the
\* title in bold, one cut after the fourth line.
C7_ExactCallSequence ==
    \A r \in Reqs :
        Returned(r) =>
            LET c == CallsOf(req[r].calls)
                p == req[r].payload
                l == req[r].lines
            IN /\ AllOk(req[r].calls)
               /\ SubSeq(l[3], 1, Len(CreatedLabel)) = CreatedLabel
               /\ SubSeq(l[4], 1, Len(DueLabel)) = DueLabel
               /\ c = << [op |-> "set", align |-> "left", style |-> "b", text |-> <<>>],
                         [op |-> "textln", align |-> "", style |-> "", text |-> p.title \o <<10>>],
                         [op |-> "set", align |-> "", style |-> "normal", text |-> <<>>],
                         [op |-> "textln", align |-> "", style |-> "",
                          text |-> p.description \o <<10>>],
                         [op |-> "textln", align |-> "", style |-> "", text |-> l[3] \o <<10>>],
                         [op |-> "textln", align |-> "", style |-> "", text |-> l[4] \o <<10>>],
                         [op |-> "cut", align |-> "", style |-> "", text |-> <<>>] >>
               /\ \A i \in 1..Len(c) :
                     c[i].op = "textln" => (StyleInEffect(c, i) = "b" <=> i = 2)
               /\ [i \in 1..Len(DeviceOf(r)) |-> DeviceOf(r)[i].op]
                     = <<"set", "textln", "set", "textln", "textln", "textln", "cut">>

C7_Witness ==
    \E r \in Reqs :
        /\ Returned(r)
        /\ Len(req[r].calls) = 7
        /\ req[r].calls[7].call.op = "cut"

\* YYYY-MM-DD HH:MM, every field zero-padded
ZeroPadded(dt) ==
    Pad(dt.year, 4) \o Str("-") \o Pad(dt.month, 2) \o Str("-") \o Pad(dt.day, 2)
        \o Str(" ") \o Pad(dt.hour, 2) \o Str(":") \o Pad(dt.minute, 2)

\* C8: for every timestamp the third line is "Created: " and the fourth
\* "Due:     " followed by the timestamp as zero-padded YYYY-MM-DD HH:MM without
\* seconds; the two lines have the same length.  2024-01-05T09:30 gives
\* "Created: 2024-01-05 09:30" and 2024-01-05T17:00 "Due:     2024-01-05 17:00".
C8_TimestampLines ==
    req[1].st = "built" =>
        LET created == req[1].payload.created_on.dt
            due     == req[1].payload.due_by.dt
            l       == req[1].lines
        IN /\ l[3] = Str("Created: ") \o ZeroPadded(created)
           /\ l[4] = Str("Due:     ") \o ZeroPadded(due)
           /\ Len(l[3]) = Len(l[4])
           /\ (created.year = 2024 /\ created.month = 1 /\ created.day = 5
                  /\ created.hour = 9 /\ created.minute = 30) =>
                 l[3] = Str("Created: 2024-01-05 09:30")
           /\ (due.year = 2024 /\ due.month = 1 /\ due.day = 5
                  /\ due.hour = 17 /\ due.minute = 0) =>
                 l[4] = Str("Due:     2024-01-05 17:00")

\* C9: when the k-th device call of a print_task fails, that print_task makes
\* no further call (the device has its first k-1 calls and nothing else of
\* it), and the handler answers 500 with the error's message, on POST /print
\* and on POST /api/print.
C9_FailureStopsPrintTask ==
    /\ \A r \in Reqs :
          (req[r].st = "running" /\ req[r].exc # NoExc) =>
              /\ StopsAtFailure(req[r].calls)
              /\ \A i \in 1..Len(req[r].calls) :
                    req[r].calls[i].call = PrintCalls(req[r].lines)[i]
              /\ Len(DeviceOf(r)) = Len(req[r].calls) - 1
    /\ (last.endpoint \in WebEndpoints /\ last.exc # NoExc) =>
          /\ StopsAtFailure(last.calls)
          /\ Len(DeviceOf(last.id)) = Len(last.calls) - 1
          /\ last.status = 500
          /\ last.endpoint = "api" => last.body.detail = last.exc.msg
          /\ last.endpoint = "form" => last.body.content = Str("Error printing: ") \o last.exc.msg

C9_Witness ==
    /\ last.endpoint = "form"
    /\ last.exc # NoExc
    /\ Len(last.calls) = 4
    /\ Len(DeviceOf(last.id)) = 3
    /\ last.status = 500

\* request a is between its first device call and its cut
MidSequence(a) == Printing(a) /\ req[a].pc >= 2

\* a call of another request lies between two calls of one request
\* (a request's calls stop being consecutive at some j, and resume at some k)
Interleaved ==
    \E j \in 2..Len(device) :
        /\ device[j].req # device[j - 1].req
        /\ \E k \in (j + 1)..Len(device) : device[k].req = device[j - 1].req

\* C10 as claimed: requests in flight together are not serialized: while
\* request a is between its first device call and its cut, a waiting request b
\* can be dispatched and make its device calls in between.
C10_NotSerialized ==
    \A a, b \in Reqs :
        (a # b /\ MidSequence(a) /\ req[b].st = "pending") =>
            ENABLED (ApiDispatch(b) \/ FormDispatch(b))

\* C10 amended: requests in flight together in one process are serialized by
\* the event loop: at most one handler is inside print_task, and no device call
\* of a request lies between two device calls of another.
C10_Serialized ==
    /\ Cardinality({r \in Reqs : req[r].st = "running"}) <= 1
    /\ ~Interleaved

C10_Witness ==
    \E a, b \in Reqs :
        /\ a # b
        /\ MidSequence(a)
        /\ req[b].st = "pending"
        /\ DeviceOf(a) # <<>>

====
